---- MODULE Spec2Model ----
(***************************************************************************)
(* X402Client (402_standalone-client/client.ts): the 402 -> pay -> retry   *)
(* flow of request(), the EIP-3009 authorization built by createPayment(), *)
(* body parsing and header encoding.  Every await of the code is a step    *)
(* boundary; the code between two awaits is one action.                    *)
(***************************************************************************)
EXTENDS Integers, Sequences, FiniteSets, TLC

(***************************************************************************)
(* Bounds of the model.                                                    *)
(***************************************************************************)
\* longest accepts array a 402 body carries
MaxAccepts == 2
\* unix time (seconds) at which the modelled runs start
EpochStart == 1700000000

(***************************************************************************)
(* Program constants.                                                      *)
(***************************************************************************)
\* client.ts:206   validBefore = now + BigInt(3600)
ValidityWindow == 3600
\* client.ts:117   initialResponse.status !== 402
PaymentRequired == 402
\* client.ts:152   paidResponse.status !== 200
StatusOk == 200
\* client.ts:263   x402Version: 1
X402Version == 1
\* viem/chains base.id, the default of client.ts:83
BaseChainId == 8453
\* viem/chains baseSepolia.id
BaseSepoliaChainId == 84532

(***************************************************************************)
(* Decimal strings.  A string that the code converts (BigInt(s),           *)
(* n.toString()) is a sequence of one-character strings.                   *)
(***************************************************************************)
Digits == <<"0", "1", "2", "3", "4", "5", "6", "7", "8", "9">>

DigitChars == {Digits[i] : i \in 1..10}

DigitValue(ch) == (CHOOSE i \in 1..10 : Digits[i] = ch) - 1

\* BigInt.prototype.toString(): canonical decimal, no leading zero
RECURSIVE ToDecimal(_)
ToDecimal(n) ==
  IF n < 10 THEN <<Digits[n + 1]>>
  ELSE Append(ToDecimal(n \div 10), Digits[(n % 10) + 1])

RECURSIVE DecimalValue(_)
DecimalValue(s) ==
  IF s = <<>> THEN 0
  ELSE 10 * DecimalValue(SubSeq(s, 1, Len(s) - 1)) + DigitValue(s[Len(s)])

\* BigInt(string): the empty string is 0n, a string of decimal digits (leading
\* zeros allowed) is its value, anything else throws SyntaxError
BigIntOrThrow(s) ==
  IF \A i \in 1..Len(s) : s[i] \in DigitChars
  THEN [ok |-> TRUE, value |-> DecimalValue(s)]
  ELSE [ok |-> FALSE, value |-> 0]

(***************************************************************************)
(* Hexadecimal strings: Number.prototype.toString(16) and padStart.        *)
(***************************************************************************)
HexDigits == <<"0", "1", "2", "3", "4", "5", "6", "7", "8", "9", "a", "b", "c", "d", "e", "f">>

\* n.toString(16): lower case, no leading zero
RECURSIVE ToHex(_)
ToHex(n) ==
  IF n < 16 THEN <<HexDigits[n + 1]>>
  ELSE Append(ToHex(n \div 16), HexDigits[(n % 16) + 1])

\* s.padStart(width, ch): s itself when it is width long or longer
PadStart(s, width, ch) ==
  [i \in 1..(width - Len(s)) |-> ch] \o s

(***************************************************************************)
(* JSON values of response bodies.  One record shape for all of them.      *)
(***************************************************************************)
JNull == [t |-> "null", hasAccepts |-> FALSE, accepts |-> <<>>, error |-> "", tag |-> ""]

\* {}
JEmptyObject == [t |-> "object", hasAccepts |-> FALSE, accepts |-> <<>>, error |-> "", tag |-> ""]

\* an object without accepts, e.g. a screening result
JObject(tag) == [t |-> "object", hasAccepts |-> FALSE, accepts |-> <<>>, error |-> "", tag |-> tag]

\* { accepts: [...], x402Version: 1 }
JPaymentDetails(opts) == [t |-> "object", hasAccepts |-> TRUE, accepts |-> opts, error |-> "", tag |-> ""]

\* { error: raw }
JErrorObject(raw) == [t |-> "object", hasAccepts |-> FALSE, accepts |-> <<>>, error |-> raw, tag |-> ""]

(***************************************************************************)
(* Inputs: the payment options a server may offer.                         *)
(***************************************************************************)
DefaultOption ==
  [scheme |-> "exact", network |-> "base-sepolia",
   maxAmountRequired |-> <<"1", "0", "0", "0", "0">>,
   resource |-> "/api-402/screen", payTo |-> "0xPayee", asset |-> "0xUSDC"]

\* the default option and its variants in one field: another scheme, no scheme,
\* another network, a large amount, an amount with leading zeros, an amount
\* BigInt rejects, another recipient and asset, no resource
PaymentOptions ==
  { DefaultOption,
    [DefaultOption EXCEPT !.scheme = "upto"],
    [DefaultOption EXCEPT !.scheme = ""],
    [DefaultOption EXCEPT !.network = "base"],
    [DefaultOption EXCEPT !.maxAmountRequired = <<"9", "9", "9", "9", "9", "9", "9", "9", "9">>],
    [DefaultOption EXCEPT !.maxAmountRequired = <<"0", "7">>],
    [DefaultOption EXCEPT !.maxAmountRequired = <<"1", ".", "5">>],
    [DefaultOption EXCEPT !.payTo = "0xMallory", !.asset = "0xOther"],
    [DefaultOption EXCEPT !.resource = ""] }

RECURSIVE SeqsUpTo(_, _)
SeqsUpTo(S, n) ==
  IF n = 0 THEN {<<>>}
  ELSE LET shorter == SeqsUpTo(S, n - 1)
       IN shorter \cup {Append(s, x) : s \in {q \in shorter : Len(q) = n - 1}, x \in S}

\* the options that may follow the first one
LaterOptions == {[DefaultOption EXCEPT !.payTo = "0xMallory", !.asset = "0xOther"]}

\* accepts: empty, or any first option followed by up to MaxAccepts - 1 others
AcceptsArrays ==
  {<<>>} \cup {<<first>> \o rest : first \in PaymentOptions,
                                   rest \in SeqsUpTo(LaterOptions, MaxAccepts - 1)}

(***************************************************************************)
(* Response bodies as the transport delivers them.                         *)
(***************************************************************************)
EmptyText == [kind |-> "empty", json |-> JNull, raw |-> ""]

JsonText(v) == [kind |-> "json", json |-> v, raw |-> ""]

RawText(raw) == [kind |-> "raw", json |-> JNull, raw |-> raw]

\* bodies a server sends with a 402
PaymentBodies ==
  {[reader |-> "text", readable |-> TRUE, text |-> JsonText(JPaymentDetails(a))] :
     a \in AcceptsArrays}
  \cup {[reader |-> "text", readable |-> TRUE, text |-> t] :
          t \in {EmptyText, RawText("<html>Payment Required</html>"),
                 JsonText(JNull), JsonText(JObject("no-accepts"))}}
  \cup {[reader |-> "text", readable |-> FALSE, text |-> EmptyText]}

\* bodies a server sends with any other status
PlainBodies ==
  {[reader |-> "text", readable |-> TRUE, text |-> t] :
     t \in {EmptyText, RawText("Bad Gateway"), JsonText(JObject("screening-result"))}}

\* a content-type header value, in the pieces the client looks for
JsonContentType == <<"application/json">>

\* a response of round `round` (1: initial, 2: paid); its Headers object is
\* opaque to the client, but for content-type, and named after the round
Responses(round, statuses, paymentBodies) ==
  {[status |-> s, body |-> b, contentType |-> JsonContentType,
    headers |-> <<"headers of response", round>>] :
     s \in statuses \ {PaymentRequired}, b \in PlainBodies}
  \cup {[status |-> s, body |-> b, contentType |-> JsonContentType,
          headers |-> <<"headers of response", round>>] :
     s \in statuses \cap {PaymentRequired}, b \in paymentBodies}

InitialResponses == Responses(1, {200, 201, 402, 500}, PaymentBodies)

PaidResponses ==
  Responses(2, {200, 201, 402, 500},
            {[reader |-> "text", readable |-> TRUE,
              text |-> JsonText(JPaymentDetails(<<DefaultOption>>))]})

NoResponse ==
  [status |-> 0, body |-> [reader |-> "none", readable |-> FALSE, text |-> EmptyText],
   contentType |-> <<>>, headers |-> <<"none", 0>>]

(***************************************************************************)
(* parseResponse and safeReadText.                                         *)
(***************************************************************************)
\* JSON.stringify(data) of a value that is no string
StringifyData(text) == IF text.kind = "json" THEN JsonText(text.json) ELSE EmptyText

\* response.text() where the response has one; else, for a mock that has
\* json(), its result: a string as it is, anything else stringified; "" when
\* the read throws or the response has neither
safeReadText(response) ==
  LET body == response.body
  IN IF body.reader = "text"
     THEN IF body.readable THEN body.text ELSE EmptyText
     ELSE IF body.reader = "json"
     THEN IF ~body.readable THEN EmptyText
          ELSE IF body.text.kind = "raw" THEN body.text
          ELSE StringifyData(body.text)
     ELSE EmptyText

\* contentType.includes(piece)
Includes(contentType, piece) == \E i \in 1..Len(contentType) : contentType[i] = piece

\* lines 290-291
IsJsonContentType(contentType) ==
  Includes(contentType, "application/json") \/ Includes(contentType, "+json")

\* variant: only a body announced as JSON gives the error-shaped value
parseLogged_JsonTypesOnly(response) ==
  LET text == safeReadText(response)
  IN IF text.kind = "empty" THEN [value |-> JEmptyObject, debug |-> <<>>]
     ELSE IF text.kind = "json" THEN [value |-> text.json, debug |-> <<>>]
     ELSE IF IsJsonContentType(response.contentType)
     THEN [value |-> JErrorObject(text.raw), debug |-> <<"Failed to parse JSON response">>]
     ELSE [value |-> JEmptyObject, debug |-> <<>>]

\* parseResponse with what it hands to logDebug: {} for an empty text,
\* JSON.parse(text) when it parses, { error: text } else, with a debug line
\* when the content type announced JSON
parseLogged(response) ==
  LET contentType == response.contentType
      text == safeReadText(response)
  IN IF text.kind = "empty" THEN [value |-> JEmptyObject, debug |-> <<>>]
     ELSE IF text.kind = "json" THEN [value |-> text.json, debug |-> <<>>]
     ELSE [value |-> JErrorObject(text.raw),
           debug |-> IF IsJsonContentType(contentType)
                     THEN <<"Failed to parse JSON response">> ELSE <<>>]

\* the value parseResponse returns
parseResponse(response) == parseLogged(response).value

(***************************************************************************)
(* Caller input: url and options (RequestInit).  options.headers comes in  *)
(* the forms HeadersInit allows.                                           *)
(***************************************************************************)
HeaderForms == {"object", "Headers", "array"}

HeaderLists ==
  {[form |-> "undefined", entries |-> <<>>]}
  \cup {[form |-> f, entries |-> <<<<"Authorization", "Bearer t">>>>] : f \in HeaderForms}
  \cup {[form |-> "object",
         entries |-> <<<<"Authorization", "Bearer t">>, <<"X-PAYMENT", "stale">>>>]}

CallerOptions == {[method |-> "GET", headers |-> h] : h \in HeaderLists}

Urls == {"https://x402.cipherowl.ai/api-402/screen"}

\* the header fields fetch sends for options.headers given as is
HeadersOf(h) ==
  {[name |-> h.entries[i][1], value |-> <<h.entries[i][2]>>] : i \in 1..Len(h.entries)}

IndexKeys == <<"0", "1", "2">>

\* { ...options.headers }: the own enumerable properties.  A plain object gives
\* its fields, a Headers instance has none, an array gives its indices, each
\* holding a [name, value] pair
SpreadHeaders(h) ==
  CASE h.form = "object" -> HeadersOf(h)
    [] h.form = "array" ->
         {[name |-> IndexKeys[i], value |-> h.entries[i]] : i \in 1..Len(h.entries)}
    [] OTHER -> {}

NoPayment == [encoding |-> "", json |-> <<>>]

\* { ...options, headers: { ...options.headers, "X-PAYMENT": base64Payment } }
PaidInit(options, base64Payment) ==
  [method |-> options.method,
   headers |-> {f \in SpreadHeaders(options.headers) : f.name # "X-PAYMENT"},
   xPayment |-> base64Payment]

\* options passed through unchanged
InitialInit(options) ==
  [method |-> options.method, headers |-> HeadersOf(options.headers), xPayment |-> NoPayment]

(***************************************************************************)
(* Errors and results.                                                     *)
(***************************************************************************)
Err(name, message, cause, status, body) ==
  [name |-> name, message |-> message, cause |-> cause, status |-> status, body |-> body]

NoError == Err("", "", "", 0, JNull)

Pending == [kind |-> "pending", data |-> JNull, status |-> 0, headers |-> <<"none", 0>>, error |-> NoError]

\* return { data, status, headers }
Return(data, response) ==
  [kind |-> "return", data |-> data, status |-> response.status,
   headers |-> response.headers, error |-> NoError]

Throw(e) == [kind |-> "throw", data |-> JNull, status |-> 0, headers |-> <<"none", 0>>, error |-> e]

ProtocolError == Err("Error", "No payment options available in 402 response", "", 0, JNull)

\* `Failed to create payment: ${error.message}`
PaymentError(cause) == Err("Error", "Failed to create payment: ", cause, 0, JNull)

\* `Payment accepted but request failed: ${status}. ${JSON.stringify(paidData)}`
SettlementError(status, data) ==
  Err("Error", "Payment accepted but request failed: ", "", status, data)

(***************************************************************************)
(* The decisions of request().                                             *)
(***************************************************************************)
\* variant: everything but a 200 is taken for a payment request
NeedsPayment_Not200(response) == response.status # StatusOk

\* line 117: initialResponse.status !== 402 returns the first response
NeedsPayment(response) == response.status = PaymentRequired

\* line 126: !paymentDetails.accepts || paymentDetails.accepts.length === 0
NoPaymentOptions(data) == ~data.hasAccepts \/ Len(data.accepts) = 0

\* variant: the last option offered is taken
SelectOption_Last(accepts) == accepts[Len(accepts)]

\* line 130: paymentDetails.accepts[0]
SelectOption(accepts) == accepts[1]

\* variant: only a server error counts as a failed retry
PaidFailed_ServerErrorOnly(response) == response.status >= 500

\* line 152: paidResponse.status !== 200 throws
PaidFailed(response) == response.status # StatusOk

(***************************************************************************)
(* The payment payload and its header encoding.                            *)
(***************************************************************************)
\* line 205
ValidAfter(now) == now

\* variant: the window is added in milliseconds
ValidBefore_Millis(now) == now + ValidityWindow * 1000

\* variant: the window ends one second early
ValidBefore_Short(now) == now + ValidityWindow - 1

\* line 206
ValidBefore(now) == now + ValidityWindow

\* variant: an empty looked-up value is used as it is
OrDefault_Raw(value, fallback) == value

\* lines 216-217: contractName || 'USD Coin', contractVersion || '2'
OrDefault(value, fallback) == IF value # "" THEN value ELSE fallback

\* client.ts:209   padStart(16, '0')
TimestampHexDigits == 16

\* client.ts:211   padStart(2, '0')
ByteHexDigits == 2

\* variant: the timestamp is not padded
TimestampHex_NoPad(timestamp) == ToHex(timestamp)

\* line 209: timestamp.toString(16).padStart(16, '0')
TimestampHex(timestamp) == PadStart(ToHex(timestamp), TimestampHexDigits, "0")

\* variant: a byte below 16 is written as one digit
ByteHex_NoPad(byte) == ToHex(byte)

\* line 211: byte.toString(16).padStart(2, '0')
ByteHex(byte) == PadStart(ToHex(byte), ByteHexDigits, "0")

\* lines 210-212: the strings of the bytes from index k on, joined
RECURSIVE JoinFrom(_, _)
JoinFrom(bytes, k) ==
  IF k > Len(bytes) THEN <<>>
  ELSE ByteHex(bytes[k]) \o JoinFrom(bytes, k + 1)

\* line 212: join('')
JoinBytes(bytes) == JoinFrom(bytes, 1)

\* line 213: `0x${timestampHex}${randomBytes}`
NonceBytes(timestamp, random) == <<"0", "x">> \o TimestampHex(timestamp) \o JoinBytes(random)

NoParams ==
  [ok |-> FALSE, amount |-> 0, recipient |-> "", reference |-> "", asset |-> "",
   scheme |-> "", network |-> ""]

\* the argument of createPayment built from accepts[0]
PaymentParams(paymentOption, url) ==
  [ok |-> BigIntOrThrow(paymentOption.maxAmountRequired).ok,
   amount |-> BigIntOrThrow(paymentOption.maxAmountRequired).value,
   recipient |-> paymentOption.payTo,
   reference |-> IF paymentOption.resource # "" THEN paymentOption.resource ELSE url,
   asset |-> paymentOption.asset,
   scheme |-> IF paymentOption.scheme # "" THEN paymentOption.scheme ELSE "exact",
   network |-> paymentOption.network]

NoTyped ==
  [domain |-> [name |-> "", version |-> "", chainId |-> 0, verifyingContract |-> ""],
   message |-> [from |-> "", to |-> "", value |-> 0, validAfter |-> 0, validBefore |-> 0,
                nonce |-> <<>>]]

\* domain and message handed to signTypedData
TypedData(client, params, contractName, contractVersion, now, nonceBytes) ==
  [domain |-> [name |-> OrDefault(contractName, "USD Coin"),
               version |-> OrDefault(contractVersion, "2"),
               chainId |-> client.chainId,
               verifyingContract |-> params.asset],
   message |-> [from |-> client.accountAddress, to |-> params.recipient,
                value |-> params.amount,
                validAfter |-> ValidAfter(now), validBefore |-> ValidBefore(now),
                nonce |-> nonceBytes]]

NoPayload ==
  [x402Version |-> 0, scheme |-> "", network |-> "",
   payload |-> [signature |-> [signer |-> "", typed |-> NoTyped],
                authorization |-> [from |-> "", to |-> "", value |-> <<>>,
                                   validAfter |-> <<>>, validBefore |-> <<>>,
                                   nonce |-> <<>>]]]

\* the value createPayment returns
PaymentPayload(client, params, typed, signature) ==
  [x402Version |-> X402Version, scheme |-> params.scheme, network |-> params.network,
   payload |-> [signature |-> signature,
                authorization |-> [from |-> client.accountAddress,
                                   to |-> params.recipient,
                                   value |-> ToDecimal(params.amount),
                                   validAfter |-> ToDecimal(typed.message.validAfter),
                                   validBefore |-> ToDecimal(typed.message.validBefore),
                                   nonce |-> typed.message.nonce]]]

\* JSON.stringify(payload): the fields in insertion order, the number as digits
JsonStringify(p) ==
  << <<"x402Version", ToDecimal(p.x402Version)>>, <<"scheme", p.scheme>>,
     <<"network", p.network>>, <<"signature", p.payload.signature>>,
     <<"from", p.payload.authorization.from>>, <<"to", p.payload.authorization.to>>,
     <<"value", p.payload.authorization.value>>,
     <<"validAfter", p.payload.authorization.validAfter>>,
     <<"validBefore", p.payload.authorization.validBefore>>,
     <<"nonce", p.payload.authorization.nonce>> >>

\* Buffer when there is one, else TextEncoder and btoa, else a throw
encodePaymentPayload(payload, env) ==
  IF env.Buffer \/ env.btoa
  THEN [ok |-> TRUE, value |-> [encoding |-> "base64", json |-> JsonStringify(payload)]]
  ELSE [ok |-> FALSE, value |-> NoPayment]

(***************************************************************************)
(* Collaborators: metadata reads, signer, random source, runtime.          *)
(***************************************************************************)
\* a readContract call: rejects, or resolves to a string (possibly empty)
ReadResults ==
  {[ok |-> FALSE, value |-> ""], [ok |-> TRUE, value |-> ""], [ok |-> TRUE, value |-> "USDC"]}

\* readContract(...).catch(() => fallback)
CatchRead(result, fallback) == IF result.ok THEN result.value ELSE fallback

\* client.ts:210   Array.from({ length: 24 }, ...)
NonceRandomBytes == 24

\* draws of the 24 random bytes
\* two draws that differ in their first two bytes only
RandomDraws ==
  {[i \in 1..NonceRandomBytes |-> IF i = 1 THEN a ELSE IF i = 2 THEN 18 - a
                                  ELSE IF i % 2 = 1 THEN 171 ELSE 10] : a \in {1, 17}}

\* what signTypedData may throw: an Error, or a value that is no Error
SignFailures == {"User rejected the request", "non-Error value"}

\* the runtime: typeof Buffer, typeof btoa, globalThis.fetch
Environments ==
  {[Buffer |-> TRUE, btoa |-> TRUE, fetch |-> TRUE],
   [Buffer |-> FALSE, btoa |-> TRUE, fetch |-> TRUE],
   [Buffer |-> FALSE, btoa |-> FALSE, fetch |-> TRUE],
   [Buffer |-> TRUE, btoa |-> TRUE, fetch |-> FALSE]}

\* the fields the constructor sets
Clients ==
  {[accountAddress |-> "0xPayer", chainId |-> id, fetchFn |-> f] :
     id \in {BaseChainId, BaseSepoliaChainId}, f \in BOOLEAN}

\* a client in its runtime: options.fetch is given where there is no global
\* fetch, and in one runtime it is not; the client of the second network runs
\* where Buffer and fetch exist
Setups ==
  {su \in Environments \X Clients :
     /\ su[2].fetchFn => ~su[1].fetch
     /\ su[2].chainId = BaseSepoliaChainId => su[1].Buffer /\ su[1].fetch}

\* the readings of Date.now() / 1000 the model distinguishes
ClockValues ==
  {EpochStart - 1, EpochStart, EpochStart + ValidityWindow - 1, EpochStart + ValidityWindow}

(***************************************************************************)
(* State.                                                                  *)
(***************************************************************************)
VARIABLES
  clock,            \* Math.floor(Date.now() / 1000)
  env,              \* the runtime
  client,           \* the X402Client's fields
  pc,               \* per call: where request() stands
  args,             \* per call: url and options
  transport,        \* per call: the fetch calls issued, in order
  initialResponse,  \* per call: the first response
  params,           \* per call: the argument of createPayment
  metadata,         \* per call: the two readContract results
  signing,          \* per call: the signTypedData calls issued, in order
  paymentPayload,   \* per call: the value createPayment returned
  paidResponse,     \* per call: the second response
  outcome           \* per call: pending, the returned value or the thrown error

vars ==
  <<clock, env, client, pc, args, transport, initialResponse, params, metadata,
    signing, paymentPayload, paidResponse, outcome>>

Calls == DOMAIN pc

NoArgs == [url |-> "", options |-> [method |-> "", headers |-> [form |-> "undefined", entries |-> <<>>]]]

NoMetadata == [name |-> [ok |-> FALSE, value |-> ""], version |-> [ok |-> FALSE, value |-> ""]]

InitWith(ids, setups) ==
  /\ clock = EpochStart
  /\ \E su \in setups : env = su[1] /\ client = su[2]
  /\ pc = [c \in ids |-> "idle"]
  /\ args = [c \in ids |-> NoArgs]
  /\ transport = [c \in ids |-> <<>>]
  /\ initialResponse = [c \in ids |-> NoResponse]
  /\ params = [c \in ids |-> NoParams]
  /\ metadata = [c \in ids |-> NoMetadata]
  /\ signing = [c \in ids |-> <<>>]
  /\ paymentPayload = [c \in ids |-> NoPayload]
  /\ paidResponse = [c \in ids |-> NoResponse]
  /\ outcome = [c \in ids |-> Pending]

Init == InitWith({1}, Setups)

\* variant: the result is stored but the call goes on waiting
Finish_Unsettled(c, result) ==
  /\ pc' = pc
  /\ outcome' = [outcome EXCEPT ![c] = result]

\* the call ends: it returns or throws
Finish(c, result) ==
  /\ pc' = [pc EXCEPT ![c] = "done"]
  /\ outcome' = [outcome EXCEPT ![c] = result]

\* fetchImpl(url, init)
Fetch(c, url, init) ==
  transport' = [transport EXCEPT ![c] = Append(@, [url |-> url, init |-> init, at |-> clock])]

(***************************************************************************)
(* request(), lines 109-114: resolve fetch and issue the first call.       *)
(***************************************************************************)
request(c, url, options) ==
  /\ pc[c] = "idle"
  /\ args' = [args EXCEPT ![c] = [url |-> url, options |-> options]]
  /\ IF ~client.fetchFn /\ ~env.fetch
     THEN /\ Finish(c, Throw(Err("Error", "Fetch implementation not available; provide one via options.fetch", "", 0, JNull)))
          /\ UNCHANGED transport
     ELSE /\ Fetch(c, url, InitialInit(options))
          /\ pc' = [pc EXCEPT ![c] = "initial"]
          /\ UNCHANGED outcome
  /\ UNCHANGED <<clock, env, client, initialResponse, params, metadata, signing,
                 paymentPayload, paidResponse>>

(***************************************************************************)
(* request(), lines 114-138: the first response arrives and is parsed; a   *)
(* non-402 is returned, a 402 without options throws, else createPayment   *)
(* starts and issues both metadata reads (lines 191-202).                  *)
(***************************************************************************)
initialResponds(c, response) ==
  /\ pc[c] = "initial"
  /\ initialResponse' = [initialResponse EXCEPT ![c] = response]
  /\ LET initialData == parseResponse(response)
     IN IF ~NeedsPayment(response)
        THEN Finish(c, Return(initialData, response)) /\ UNCHANGED params
        ELSE IF initialData.t = "null"
        THEN /\ Finish(c, Throw(Err("TypeError", "Cannot read properties of null (reading 'accepts')", "", 0, JNull)))
             /\ UNCHANGED params
        ELSE IF NoPaymentOptions(initialData)
        THEN Finish(c, Throw(ProtocolError)) /\ UNCHANGED params
        ELSE LET p == PaymentParams(SelectOption(initialData.accepts), args[c].url)
             IN IF ~p.ok
                THEN /\ Finish(c, Throw(Err("SyntaxError", "Cannot convert to a BigInt", "", 0, JNull)))
                     /\ UNCHANGED params
                ELSE /\ params' = [params EXCEPT ![c] = p]
                     /\ pc' = [pc EXCEPT ![c] = "metadata"]
                     /\ UNCHANGED outcome
  /\ UNCHANGED <<clock, env, client, args, transport, metadata, signing, paymentPayload,
                 paidResponse>>

\* line 114: the first fetch rejects; nothing catches it
initialRejects(c) ==
  /\ pc[c] = "initial"
  /\ Finish(c, Throw(Err("TypeError", "fetch failed", "", 0, JNull)))
  /\ UNCHANGED <<clock, env, client, args, transport, initialResponse, params, metadata,
                 signing, paymentPayload, paidResponse>>

\* variant: signTypedData is not awaited; the payload is built around the
\* still pending signature and the request is reissued at once
metadataSettles_NoAwait(c, nameResult, versionResult, random) ==
  /\ pc[c] = "metadata"
  /\ metadata' = [metadata EXCEPT ![c] = [name |-> nameResult, version |-> versionResult]]
  /\ LET typed == TypedData(client, params[c], CatchRead(nameResult, "USD Coin"),
                            CatchRead(versionResult, "2"), clock,
                            NonceBytes(clock, random))
         payload == PaymentPayload(client, params[c], typed, [signer |-> "", typed |-> NoTyped])
     IN /\ signing' = [signing EXCEPT ![c] =
             Append(@, [typed |-> typed, at |-> clock, random |-> random])]
        /\ paymentPayload' = [paymentPayload EXCEPT ![c] = payload]
        /\ Fetch(c, args[c].url,
                 PaidInit(args[c].options, [encoding |-> "base64", json |-> JsonStringify(payload)]))
  /\ pc' = [pc EXCEPT ![c] = "paid"]
  /\ UNCHANGED <<clock, env, client, args, initialResponse, params, paidResponse, outcome>>

(***************************************************************************)
(* createPayment(), lines 191-247: both reads have settled; the clock is   *)
(* read, the nonce drawn, and the typed data handed to the signer.  Lines   *)
(* 204 and 208 read the clock in one synchronous block: one reading.       *)
(***************************************************************************)
metadataSettles(c, nameResult, versionResult, random) ==
  /\ pc[c] = "metadata"
  /\ metadata' = [metadata EXCEPT ![c] = [name |-> nameResult, version |-> versionResult]]
  /\ LET contractName == CatchRead(nameResult, "USD Coin")
         contractVersion == CatchRead(versionResult, "2")
         now == clock
         timestamp == clock
         nonceBytes == NonceBytes(timestamp, random)
     IN signing' = [signing EXCEPT ![c] =
          Append(@, [typed |-> TypedData(client, params[c], contractName, contractVersion,
                                         now, nonceBytes),
                     at |-> clock, random |-> random])]
  /\ pc' = [pc EXCEPT ![c] = "signing"]
  /\ UNCHANGED <<clock, env, client, args, transport, initialResponse, params,
                 paymentPayload, paidResponse, outcome>>

\* variant: the argument of createPayment is kept in a field of the client
\* that every call writes; the payload is built from what it holds
signReturns_SharedParams(c) ==
  /\ pc[c] = "signing"
  /\ \E d \in Calls :
       /\ params[d].ok
       /\ LET typed == signing[c][Len(signing[c])].typed
              signature == [signer |-> client.accountAddress, typed |-> typed]
              payload == PaymentPayload(client, params[d], typed, signature)
              base64Payment == encodePaymentPayload(payload, env)
          IN /\ paymentPayload' = [paymentPayload EXCEPT ![c] = payload]
             /\ IF ~base64Payment.ok
                THEN /\ Finish(c, Throw(Err("Error", "No base64 encoder available in current environment", "", 0, JNull)))
                     /\ UNCHANGED transport
                ELSE /\ Fetch(c, args[c].url, PaidInit(args[c].options, base64Payment.value))
                     /\ pc' = [pc EXCEPT ![c] = "paid"]
                     /\ UNCHANGED outcome
  /\ UNCHANGED <<clock, env, client, args, initialResponse, params, metadata, signing,
                 paidResponse>>

(***************************************************************************)
(* createPayment(), lines 242-270, and request(), lines 140-149: the       *)
(* signature arrives, the payload is built and encoded, the request is     *)
(* reissued with X-PAYMENT.                                                *)
(***************************************************************************)
signReturns(c) ==
  /\ pc[c] = "signing"
  /\ LET typed == signing[c][Len(signing[c])].typed
         signature == [signer |-> client.accountAddress, typed |-> typed]
         payload == PaymentPayload(client, params[c], typed, signature)
         base64Payment == encodePaymentPayload(payload, env)
     IN /\ paymentPayload' = [paymentPayload EXCEPT ![c] = payload]
        /\ IF ~base64Payment.ok
           THEN /\ Finish(c, Throw(Err("Error", "No base64 encoder available in current environment", "", 0, JNull)))
                /\ UNCHANGED transport
           ELSE /\ Fetch(c, args[c].url, PaidInit(args[c].options, base64Payment.value))
                /\ pc' = [pc EXCEPT ![c] = "paid"]
                /\ UNCHANGED outcome
  /\ UNCHANGED <<clock, env, client, args, initialResponse, params, metadata, signing,
                 paidResponse>>

\* lines 271-276: signTypedData throws; the catch rewraps it
signThrows(c, failure) ==
  /\ pc[c] = "signing"
  /\ Finish(c, Throw(PaymentError(IF failure = "non-Error value" THEN "Unknown error" ELSE failure)))
  /\ UNCHANGED <<clock, env, client, args, transport, initialResponse, params, metadata,
                 signing, paymentPayload, paidResponse>>

(***************************************************************************)
(* request(), lines 151-162: the second response arrives.                  *)
(***************************************************************************)
paidResponds(c, response) ==
  /\ pc[c] = "paid"
  /\ paidResponse' = [paidResponse EXCEPT ![c] = response]
  /\ LET paidData == parseResponse(response)
     IN IF PaidFailed(response)
        THEN Finish(c, Throw(SettlementError(response.status, paidData)))
        ELSE Finish(c, Return(paidData, response))
  /\ UNCHANGED <<clock, env, client, args, transport, initialResponse, params, metadata,
                 signing, paymentPayload>>

\* variant: a rejected second fetch is issued again
paidRejects_Retry(c) ==
  /\ pc[c] = "paid"
  /\ Fetch(c, args[c].url, transport[c][Len(transport[c])].init)
  /\ UNCHANGED <<clock, env, client, pc, args, initialResponse, params, metadata,
                 signing, paymentPayload, paidResponse, outcome>>

\* line 143: the second fetch rejects; nothing catches it
paidRejects(c) ==
  /\ pc[c] = "paid"
  /\ Finish(c, Throw(Err("TypeError", "fetch failed", "", 0, JNull)))
  /\ UNCHANGED <<clock, env, client, args, transport, initialResponse, params, metadata,
                 signing, paymentPayload, paidResponse>>

(***************************************************************************)
(* Time passes (or the wall clock is set back) while a call waits for its  *)
(* signature: between the clock read of line 204 and the retried request.  *)
(***************************************************************************)
Tick(t) ==
  /\ \E c \in Calls : pc[c] = "signing"
  /\ t # clock
  /\ clock' = t
  /\ UNCHANGED <<env, client, pc, args, transport, initialResponse, params, metadata,
                 signing, paymentPayload, paidResponse, outcome>>

Next ==
  \/ \E c \in Calls, url \in Urls, options \in CallerOptions : request(c, url, options)
  \/ \E c \in Calls, response \in InitialResponses : initialResponds(c, response)
  \/ \E c \in Calls : initialRejects(c)
  \/ \E c \in Calls, n \in ReadResults, v \in ReadResults, r \in RandomDraws :
       metadataSettles(c, n, v, r)
  \/ \E c \in Calls : signReturns(c)
  \/ \E c \in Calls, f \in SignFailures : signThrows(c, f)
  \/ \E c \in Calls, response \in PaidResponses : paidResponds(c, response)
  \/ \E c \in Calls : paidRejects(c)
  \/ \E t \in ClockValues : Tick(t)

Spec == Init /\ [][Next]_vars

(***************************************************************************)
(* Two calls of request() on one client, interleaved at their awaits.      *)
(***************************************************************************)
ConcurrentCalls == {1, 2}

\* a client of the option's network in a runtime that has Buffer and fetch
ConcurrentSetups ==
  {su \in Setups : su[1].Buffer /\ su[1].fetch /\ su[2].chainId = BaseSepoliaChainId}

\* the caller passes one header, as a plain object
ConcurrentOptions ==
  {o \in CallerOptions : o.headers.form = "object" /\ Len(o.headers.entries) = 1}

\* first responses: a result, or a 402 offering one of two different options
ConcurrentInitialResponses ==
  {r \in InitialResponses :
     /\ r.body.readable
     /\ r.body.text.kind = "json"
     /\ \/ r.status = StatusOk
        \/ /\ r.status = PaymentRequired
           /\ r.body.text.json.accepts \in {<<DefaultOption>>} \cup {<<o>> : o \in LaterOptions}}

ConcurrentPaidResponses ==
  {r \in PaidResponses : r.status \in {StatusOk, PaymentRequired} /\ r.body.text.kind = "json"}

ConcurrentClockValues == {EpochStart, EpochStart + 1}

InitConcurrent == InitWith(ConcurrentCalls, ConcurrentSetups)

NextConcurrent ==
  \/ \E c \in Calls, url \in Urls, options \in ConcurrentOptions : request(c, url, options)
  \/ \E c \in Calls, response \in ConcurrentInitialResponses : initialResponds(c, response)
  \/ \E c \in Calls : initialRejects(c)
  \/ \E c \in Calls, n \in {[ok |-> FALSE, value |-> ""]}, r \in RandomDraws :
       metadataSettles(c, n, n, r)
  \/ \E c \in Calls : signReturns(c)
  \/ \E c \in Calls, f \in {"User rejected the request"} : signThrows(c, f)
  \/ \E c \in Calls, response \in ConcurrentPaidResponses : paidResponds(c, response)
  \/ \E c \in Calls : paidRejects(c)
  \/ \E t \in ConcurrentClockValues : Tick(t)

SpecConcurrent == InitConcurrent /\ [][NextConcurrent]_vars

\* the collaborators answer: the transport responds or rejects, both reads
\* settle, the signer returns or throws
TransportAnswers(c) ==
  \/ \E response \in ConcurrentInitialResponses : initialResponds(c, response)
  \/ initialRejects(c)
  \/ \E response \in ConcurrentPaidResponses : paidResponds(c, response)
  \/ paidRejects(c)

ReadsSettle(c) ==
  \E n \in {[ok |-> FALSE, value |-> ""]}, r \in RandomDraws : metadataSettles(c, n, n, r)

SignerAnswers(c) ==
  \/ signReturns(c)
  \/ \E f \in {"User rejected the request"} : signThrows(c, f)

SpecFair ==
  /\ InitConcurrent
  /\ [][NextConcurrent]_vars
  /\ \A c \in ConcurrentCalls :
       /\ WF_vars(TransportAnswers(c))
       /\ WF_vars(ReadsSettle(c))
       /\ WF_vars(SignerAnswers(c))

(***************************************************************************)
(* parseResponse on its own: applied to a response of either round.        *)
(***************************************************************************)
\* content-type values: none, JSON, JSON with a charset, a +json type, HTML
ContentTypes ==
  {<<>>, <<"application/json">>, <<"application/json", "; charset=utf-8">>,
   <<"application/problem", "+json">>, <<"text/html">>}

ParseTexts ==
  {EmptyText, RawText("Bad Gateway"), RawText("<html>Payment Required</html>"),
   JsonText(JNull), JsonText(JObject("screening-result")),
   JsonText(JPaymentDetails(<<DefaultOption>>))}

\* a body read with text(), a mock's body read with json(), or neither; the
\* read succeeds or throws
ParseBodies ==
  {[reader |-> rd, readable |-> ok, text |-> t] :
     rd \in {"text", "json", "none"}, ok \in BOOLEAN, t \in ParseTexts}

ParseInputs(round) ==
  {[status |-> s, body |-> b, contentType |-> ct,
    headers |-> <<"headers of response", round>>] :
     s \in {StatusOk, PaymentRequired}, b \in ParseBodies, ct \in ContentTypes}

\* a call that holds a response of round 1 or of round 2, not yet parsed
InitParse ==
  /\ clock = EpochStart
  /\ \E su \in ConcurrentSetups : env = su[1] /\ client = su[2]
  /\ \/ /\ pc = [c \in {1} |-> "initialBody"]
        /\ \E r \in ParseInputs(1) : initialResponse = [c \in {1} |-> r]
        /\ paidResponse = [c \in {1} |-> NoResponse]
     \/ /\ pc = [c \in {1} |-> "paidBody"]
        /\ initialResponse = [c \in {1} |-> NoResponse]
        /\ \E r \in ParseInputs(2) : paidResponse = [c \in {1} |-> r]
  /\ args = [c \in {1} |-> NoArgs]
  /\ transport = [c \in {1} |-> <<>>]
  /\ params = [c \in {1} |-> NoParams]
  /\ metadata = [c \in {1} |-> NoMetadata]
  /\ signing = [c \in {1} |-> <<>>]
  /\ paymentPayload = [c \in {1} |-> NoPayload]
  /\ outcome = [c \in {1} |-> Pending]

\* line 115: initialData = await this.parseResponse(initialResponse)
parsesInitial(c) ==
  /\ pc[c] = "initialBody"
  /\ Finish(c, Return(parseResponse(initialResponse[c]), initialResponse[c]))
  /\ UNCHANGED <<clock, env, client, args, transport, initialResponse, params, metadata,
                 signing, paymentPayload, paidResponse>>

\* line 151: paidData = await this.parseResponse(paidResponse)
parsesPaid(c) ==
  /\ pc[c] = "paidBody"
  /\ Finish(c, Return(parseResponse(paidResponse[c]), paidResponse[c]))
  /\ UNCHANGED <<clock, env, client, args, transport, initialResponse, params, metadata,
                 signing, paymentPayload, paidResponse>>

NextParse ==
  \/ \E c \in Calls : parsesInitial(c)
  \/ \E c \in Calls : parsesPaid(c)

SpecParse == InitParse /\ [][NextParse]_vars

(***************************************************************************)
(* The constructor, lines 79-103, with normalizePrivateKey and             *)
(* normalizeFacilitatorUrl.  Keys and URL schemes are sequences of          *)
(* one-character strings; the rest of a URL is a sequence of pieces.       *)
(***************************************************************************)
\* client.ts:324   {64}
KeyHexDigits == 64

HexChars == {HexDigits[i] : i \in 1..16} \cup {"A", "B", "C", "D", "E", "F"}

\* s.startsWith(prefix)
StartsWith(s, prefix) ==
  Len(s) >= Len(prefix) /\ SubSeq(s, 1, Len(prefix)) = prefix

\* /^0x[0-9a-fA-F]{64}$/.test(prefixed)
MatchesKeyPattern(prefixed) ==
  /\ Len(prefixed) = 2 + KeyHexDigits
  /\ prefixed[1] = "0" /\ prefixed[2] = "x"
  /\ \A i \in 3..(2 + KeyHexDigits) : prefixed[i] \in HexChars

\* lines 322-328
normalizePrivateKey(key) ==
  LET prefixed == IF StartsWith(key, <<"0", "x">>) THEN key ELSE <<"0", "x">> \o key
  IN IF ~MatchesKeyPattern(prefixed)
     THEN [ok |-> FALSE, value |-> <<>>, message |-> "evmPrivateKey must be a 32-byte hex string"]
     ELSE [ok |-> TRUE, value |-> prefixed, message |-> ""]

\* the value of a hex digit of either case
HexCharValue(ch) ==
  IF ch \in {"A", "B", "C", "D", "E", "F"}
  THEN 10 + (CHOOSE i \in 1..6 : <<"A", "B", "C", "D", "E", "F">>[i] = ch) - 1
  ELSE (CHOOSE i \in 1..16 : HexDigits[i] = ch) - 1

\* privateKeyToAddress(privateKey): a function of the key's 32-byte value,
\* here that value itself, digit by digit
privateKeyToAddress(privateKey) ==
  [i \in 1..(Len(privateKey) - 2) |-> HexCharValue(privateKey[i + 2])]

\* new URL(url): throws for a string that is no absolute URL; otherwise the
\* scheme with its colon and the rest, a host followed by the path's pieces.
\* toString() of a http or https URL without a path has the path "/"
UrlToString(parsed) ==
  IF parsed.protocol \in {<<"h", "t", "t", "p", ":">>, <<"h", "t", "t", "p", "s", ":">>}
     /\ Len(parsed.rest) = 1
  THEN [parsed EXCEPT !.rest = Append(@, "/")]
  ELSE parsed

\* .replace(/\/$/, "")
StripTrailingSlash(href) ==
  IF Len(href.rest) > 0 /\ href.rest[Len(href.rest)] = "/"
  THEN [href EXCEPT !.rest = SubSeq(@, 1, Len(@) - 1)]
  ELSE href

NoUrl == [absolute |-> FALSE, protocol |-> <<>>, rest |-> <<>>]

\* lines 330-342
normalizeFacilitatorUrl(url) ==
  IF ~url.absolute
  THEN [ok |-> FALSE, value |-> NoUrl, message |-> "facilitatorUrl is invalid: Invalid URL"]
  ELSE IF ~StartsWith(url.protocol, <<"h", "t", "t", "p">>)
  THEN [ok |-> FALSE, value |-> NoUrl,
        message |-> "facilitatorUrl is invalid: facilitatorUrl must use http or https"]
  ELSE [ok |-> TRUE, value |-> StripTrailingSlash(UrlToString(url)), message |-> ""]

\* "https://x402.cipherowl.ai"
DefaultFacilitatorUrl ==
  [absolute |-> TRUE, protocol |-> <<"h", "t", "t", "p", "s", ":">>, rest |-> <<"x402.cipherowl.ai">>]

\* options.facilitatorUrl: undefined and "" are falsy
UrlGiven(url) == url.kind = "string" /\ (url.value.absolute \/ url.value.rest # <<>>)

NoClient ==
  [facilitatorUrl |-> NoUrl, accountAddress |-> <<>>, chainId |-> 0, fetchFn |-> FALSE]

\* new X402Client(options): the client, or the error thrown
X402Client(options) ==
  LET facilitatorUrl ==
        normalizeFacilitatorUrl(IF UrlGiven(options.facilitatorUrl)
                                THEN options.facilitatorUrl.value
                                ELSE DefaultFacilitatorUrl)
      network == IF options.network # 0 THEN options.network ELSE BaseChainId
      privateKey == normalizePrivateKey(options.evmPrivateKey)
  IN IF ~facilitatorUrl.ok
     THEN [ok |-> FALSE, message |-> facilitatorUrl.message, client |-> NoClient]
     ELSE IF ~privateKey.ok
     THEN [ok |-> FALSE, message |-> privateKey.message, client |-> NoClient]
     ELSE [ok |-> TRUE, message |-> "",
           client |-> [facilitatorUrl |-> facilitatorUrl.value,
                       accountAddress |-> privateKeyToAddress(privateKey.value),
                       chainId |-> network,
                       fetchFn |-> options.fetch]]

\* lines 105-107
getAddress(c) == c.accountAddress

\* 64 hex digits in lower case, and 64 in both cases
LowerKey == [i \in 1..KeyHexDigits |-> HexDigits[(i % 16) + 1]]

MixedKey == [i \in 1..KeyHexDigits |-> IF i % 2 = 0 THEN "A" ELSE "f"]

\* keys as callers pass them: well-formed ones, one digit short or long, with
\* a character that is no hex digit, empty; each without a prefix and with
\* 0x, and one with 0X
SampleKeys ==
  LET bodies == {LowerKey, MixedKey, SubSeq(LowerKey, 1, KeyHexDigits - 1),
                 Append(LowerKey, "0"), [LowerKey EXCEPT ![10] = "g"], <<>>}
  IN bodies \cup {<<"0", "x">> \o b : b \in bodies} \cup {<<"0", "X">> \o LowerKey}

Scheme(name) ==
  CASE name = "http" -> <<"h", "t", "t", "p", ":">>
    [] name = "https" -> <<"h", "t", "t", "p", "s", ":">>
    [] name = "httpx" -> <<"h", "t", "t", "p", "x", ":">>
    [] OTHER -> <<"f", "t", "p", ":">>

\* options.facilitatorUrl: absent, "", absolute URLs of four schemes with and
\* without a path or a trailing slash, and strings that are no absolute URL
SampleUrls ==
  {[kind |-> "undefined", value |-> NoUrl], [kind |-> "string", value |-> NoUrl]}
  \cup {[kind |-> "string", value |-> [absolute |-> TRUE, protocol |-> Scheme(s), rest |-> r]] :
          s \in {"http", "https", "httpx", "ftp"},
          r \in {<<"example.com">>, <<"example.com", "/">>, <<"example.com", "/", "api", "/">>}}
  \cup {[kind |-> "string", value |-> [absolute |-> FALSE, protocol |-> <<>>, rest |-> r]] :
          r \in {<<"not a url">>, <<"/", "api">>}}

\* options.network as its chain id, 0 when absent
ConstructorOptions ==
  {[facilitatorUrl |-> u, evmPrivateKey |-> k, network |-> n, fetch |-> f] :
     u \in SampleUrls, k \in SampleKeys, n \in {0, BaseChainId, BaseSepoliaChainId},
     f \in {FALSE}}

\* before new X402Client(options): no client yet
InitConstruct ==
  /\ clock = EpochStart
  /\ \E su \in ConcurrentSetups : env = su[1]
  /\ client = NoClient
  /\ pc = [c \in {0} |-> "new"]
  /\ \E o \in ConstructorOptions : args = [c \in {0} |-> o]
  /\ transport = [c \in {0} |-> <<>>]
  /\ initialResponse = [c \in {0} |-> NoResponse]
  /\ params = [c \in {0} |-> NoParams]
  /\ metadata = [c \in {0} |-> NoMetadata]
  /\ signing = [c \in {0} |-> <<>>]
  /\ paymentPayload = [c \in {0} |-> NoPayload]
  /\ paidResponse = [c \in {0} |-> NoResponse]
  /\ outcome = [c \in {0} |-> Pending]

\* new X402Client(options) returns the client or throws
constructs(c) ==
  /\ pc[c] = "new"
  /\ LET made == X402Client(args[c])
     IN IF made.ok
        THEN /\ client' = made.client
             /\ pc' = [pc EXCEPT ![c] = "constructed"]
             /\ UNCHANGED outcome
        ELSE /\ Finish(c, Throw(Err("Error", made.message, "", 0, JNull)))
             /\ UNCHANGED client
  /\ UNCHANGED <<clock, env, args, transport, initialResponse, params, metadata, signing,
                 paymentPayload, paidResponse>>

\* client.getAddress()
readsAddress(c) ==
  /\ pc[c] = "constructed"
  /\ Finish(c, [kind |-> "return", data |-> getAddress(client), status |-> 0,
                headers |-> <<"none", 0>>, error |-> NoError])
  /\ UNCHANGED <<clock, env, client, args, transport, initialResponse, params, metadata,
                 signing, paymentPayload, paidResponse>>

NextConstruct ==
  \/ \E c \in Calls : constructs(c)
  \/ \E c \in Calls : readsAddress(c)

SpecConstruct == InitConstruct /\ [][NextConstruct]_vars

(***************************************************************************)
(* encodePaymentPayload, lines 301-320, character by character.  A string  *)
(* is the sequence of its code points, a JSON text likewise, a byte is a    *)
(* number below 256.                                                        *)
(***************************************************************************)
\* the text JSON.stringify writes before each field, and at the end
\* {"x402Version":
LitVersion ==
  <<123, 34, 120, 52, 48, 50, 86, 101, 114, 115, 105, 111, 110, 34, 58>>

\* ,"scheme":
LitScheme ==
  <<44, 34, 115, 99, 104, 101, 109, 101, 34, 58>>

\* ,"network":
LitNetwork ==
  <<44, 34, 110, 101, 116, 119, 111, 114, 107, 34, 58>>

\* ,"payload":{"signature":
LitSignature ==
  <<44, 34, 112, 97, 121, 108, 111, 97, 100, 34, 58, 123, 34, 115, 105,
  103, 110, 97, 116, 117, 114, 101, 34, 58>>

\* ,"authorization":{"from":
LitFrom ==
  <<44, 34, 97, 117, 116, 104, 111, 114, 105, 122, 97, 116, 105, 111, 110,
  34, 58, 123, 34, 102, 114, 111, 109, 34, 58>>

\* ,"to":
LitTo ==
  <<44, 34, 116, 111, 34, 58>>

\* ,"value":
LitValue ==
  <<44, 34, 118, 97, 108, 117, 101, 34, 58>>

\* ,"validAfter":
LitValidAfter ==
  <<44, 34, 118, 97, 108, 105, 100, 65, 102, 116, 101, 114, 34, 58>>

\* ,"validBefore":
LitValidBefore ==
  <<44, 34, 118, 97, 108, 105, 100, 66, 101, 102, 111, 114, 101, 34, 58>>

\* ,"nonce":
LitNonce ==
  <<44, 34, 110, 111, 110, 99, 101, 34, 58>>

\* }}}
LitClose ==
  <<125, 125, 125>>

\* JSON.stringify of a number
DecimalCodes(n) == [i \in 1..Len(ToDecimal(n)) |-> 48 + DigitValue(ToDecimal(n)[i])]

\* \uXXXX for a control character
UnicodeEscape(cp) ==
  <<92, 117>> \o [i \in 1..4 |->
     LET digit == (cp \div (IF i = 1 THEN 4096 ELSE IF i = 2 THEN 256 ELSE IF i = 3 THEN 16 ELSE 1)) % 16
     IN IF digit < 10 THEN 48 + digit ELSE 87 + digit]

\* JSON.stringify of one character of a string
QuoteChar(cp) ==
  IF cp = 34 THEN <<92, 34>>
  ELSE IF cp = 92 THEN <<92, 92>>
  ELSE IF cp = 8 THEN <<92, 98>>
  ELSE IF cp = 9 THEN <<92, 116>>
  ELSE IF cp = 10 THEN <<92, 110>>
  ELSE IF cp = 12 THEN <<92, 102>>
  ELSE IF cp = 13 THEN <<92, 114>>
  ELSE IF cp < 32 THEN UnicodeEscape(cp)
  ELSE <<cp>>

\* the characters from lo to hi, each as JSON.stringify writes it
RECURSIVE QuoteRange(_, _, _)
QuoteRange(s, lo, hi) ==
  IF lo > hi THEN <<>>
  ELSE IF lo = hi THEN QuoteChar(s[lo])
  ELSE QuoteRange(s, lo, (lo + hi) \div 2) \o QuoteRange(s, ((lo + hi) \div 2) + 1, hi)

\* JSON.stringify of a string
Quote(s) == <<34>> \o QuoteRange(s, 1, Len(s)) \o <<34>>

\* line 302: JSON.stringify(payload)
StringifyPayload(p) ==
  LitVersion \o DecimalCodes(p.x402Version)
  \o LitScheme \o Quote(p.scheme)
  \o LitNetwork \o Quote(p.network)
  \o LitSignature \o Quote(p.payload.signature)
  \o LitFrom \o Quote(p.payload.authorization.from)
  \o LitTo \o Quote(p.payload.authorization.to)
  \o LitValue \o Quote(p.payload.authorization.value)
  \o LitValidAfter \o Quote(p.payload.authorization.validAfter)
  \o LitValidBefore \o Quote(p.payload.authorization.validBefore)
  \o LitNonce \o Quote(p.payload.authorization.nonce)
  \o LitClose

\* the UTF-8 bytes of one code point of the basic plane
Utf8Char(cp) ==
  IF cp < 128 THEN <<cp>>
  ELSE IF cp < 2048 THEN <<192 + (cp \div 64), 128 + (cp % 64)>>
  ELSE <<224 + (cp \div 4096), 128 + ((cp \div 64) % 64), 128 + (cp % 64)>>

\* the UTF-8 bytes of the characters from lo to hi
RECURSIVE Utf8Range(_, _, _)
Utf8Range(s, lo, hi) ==
  IF lo > hi THEN <<>>
  ELSE IF lo = hi THEN Utf8Char(s[lo])
  ELSE Utf8Range(s, lo, (lo + hi) \div 2) \o Utf8Range(s, ((lo + hi) \div 2) + 1, hi)

\* variant: each character is taken for one byte
TextEncode_Latin1(s) == [i \in 1..Len(s) |-> s[i] % 256]

\* line 309: new TextEncoder().encode(json)
TextEncode(s) == Utf8Range(s, 1, Len(s))

\* line 305: Buffer.from(json, "utf8")
BufferFrom(s) == Utf8Range(s, 1, Len(s))

Base64Alphabet ==
  <<"A", "B", "C", "D", "E", "F", "G", "H", "I", "J", "K", "L", "M", "N",
  "O", "P", "Q", "R", "S", "T", "U", "V", "W", "X", "Y", "Z", "a", "b",
  "c", "d", "e", "f", "g", "h", "i", "j", "k", "l", "m", "n", "o", "p",
  "q", "r", "s", "t", "u", "v", "w", "x", "y", "z", "0", "1", "2", "3",
  "4", "5", "6", "7", "8", "9", "+", "/">>

\* base64 of bytes: three bytes give four characters, the last group is
\* padded with =
Base64(bytes) ==
  LET n == Len(bytes)
      byte(i) == IF i <= n THEN bytes[i] ELSE 0
  IN [k \in 1..(4 * ((n + 2) \div 3)) |->
        LET g == (k - 1) \div 4
            j == (k - 1) % 4
            triple == byte(3 * g + 1) * 65536 + byte(3 * g + 2) * 256 + byte(3 * g + 3)
            sextet == (triple \div (IF j = 0 THEN 262144 ELSE IF j = 1 THEN 4096
                                    ELSE IF j = 2 THEN 64 ELSE 1)) % 64
        IN IF j >= 2 /\ 3 * g + j > n THEN "=" ELSE Base64Alphabet[sextet + 1]]

\* lines 310-316: binary has one character per byte, and btoa encodes the
\* characters' codes as bytes
Btoa(bytes) == Base64(bytes)

\* lines 301-320 on code points: Buffer when there is one, else TextEncoder
\* and btoa, else a throw
EncodeHeader(payload, runtime) ==
  LET json == StringifyPayload(payload)
  IN IF runtime.Buffer THEN [ok |-> TRUE, value |-> Base64(BufferFrom(json))]
     ELSE IF runtime.btoa THEN [ok |-> TRUE, value |-> Btoa(TextEncode(json))]
     ELSE [ok |-> FALSE, value |-> <<>>]

\* characters a field may hold: a control character, a line feed, a quote,
\* a backslash, and characters of two and of three UTF-8 bytes
FieldAlphabet == {1, 10, 34, 92, 233, 8364}

MaxFieldLen == 2

FieldStrings == SeqsUpTo(FieldAlphabet, MaxFieldLen)

\* payloads whose scheme, network and recipient vary; the other fields are
\* "0xS", "0xF", "10000", "0", "3600" and "0xN"
SamplePayloads ==
  {[x402Version |-> X402Version, scheme |-> s, network |-> n,
    payload |-> [signature |-> <<48, 120, 83>>,
                 authorization |-> [from |-> <<48, 120, 70>>, to |-> t,
                                    value |-> <<49, 48, 48, 48, 48>>,
                                    validAfter |-> <<48>>,
                                    validBefore |-> <<51, 54, 48, 48>>,
                                    nonce |-> <<48, 120, 78>>]]] :
     s \in FieldStrings, n \in {<<98, 97, 115, 101>>, <<233, 34>>},
     t \in {<<34, 125>>, <<92, 8364>>}}

\* a call that has built its payload, in a runtime with Buffer, with btoa
\* only, or with neither
InitEncode ==
  /\ clock = EpochStart
  /\ \E su \in {s \in Setups : s[1].fetch /\ s[2].chainId = BaseChainId} :
       env = su[1] /\ client = su[2]
  /\ pc = [c \in {1} |-> "encoding"]
  /\ \E o \in ConcurrentOptions : args = [c \in {1} |-> [url |-> "", options |-> o]]
  /\ transport = [c \in {1} |-> <<>>]
  /\ initialResponse = [c \in {1} |-> NoResponse]
  /\ params = [c \in {1} |-> NoParams]
  /\ metadata = [c \in {1} |-> NoMetadata]
  /\ signing = [c \in {1} |-> <<>>]
  /\ \E p \in SamplePayloads : paymentPayload = [c \in {1} |-> p]
  /\ paidResponse = [c \in {1} |-> NoResponse]
  /\ outcome = [c \in {1} |-> Pending]

\* lines 142-149: the payload is encoded and the header sent
encodes(c) ==
  /\ pc[c] = "encoding"
  /\ LET base64Payment == EncodeHeader(paymentPayload[c], env)
     IN IF ~base64Payment.ok
        THEN /\ Finish(c, Throw(Err("Error", "No base64 encoder available in current environment", "", 0, JNull)))
             /\ UNCHANGED transport
        ELSE /\ Fetch(c, args[c].url, PaidInit(args[c].options, base64Payment.value))
             /\ pc' = [pc EXCEPT ![c] = "paid"]
             /\ UNCHANGED outcome
  /\ UNCHANGED <<clock, env, client, args, initialResponse, params, metadata, signing,
                 paymentPayload, paidResponse>>

NextEncode == \E c \in Calls : encodes(c)

SpecEncode == InitEncode /\ [][NextEncode]_vars

(***************************************************************************)
(* Properties.                                                             *)
(***************************************************************************)
InitialData(c) == parseResponse(initialResponse[c])

PaidData(c) == parseResponse(paidResponse[c])

Answered(c) == initialResponse[c] # NoResponse

PaidAnswered(c) == paidResponse[c] # NoResponse

\* the call got a 402 whose accepts holds at least one option
Offered(c) ==
  /\ Answered(c)
  /\ initialResponse[c].status = PaymentRequired
  /\ InitialData(c).t = "object"
  /\ InitialData(c).hasAccepts
  /\ Len(InitialData(c).accepts) > 0

FirstOption(c) == InitialData(c).accepts[1]

PayloadBuilt(c) == paymentPayload[c] # NoPayload

\* C1: a call whose first response has a status other than 402 returns that
\* response's parsed body, status and headers, has signed nothing and has
\* issued the first transport call only.
C1_NonPaymentResponseReturned ==
  \A c \in Calls :
    (Answered(c) /\ initialResponse[c].status # PaymentRequired) =>
      /\ pc[c] = "done"
      /\ outcome[c].kind = "return"
      /\ outcome[c].data = InitialData(c)
      /\ outcome[c].status = initialResponse[c].status
      /\ outcome[c].headers = initialResponse[c].headers
      /\ signing[c] = <<>>
      /\ Len(transport[c]) = 1
      /\ paymentPayload[c] = NoPayload

\* C1 happens: an error status with a non-JSON body came back as a result
C1_Witness ==
  \E c \in Calls :
    /\ Answered(c)
    /\ initialResponse[c].status = 500
    /\ outcome[c].kind = "return"
    /\ outcome[c].data = JErrorObject("Bad Gateway")

\* C2 as amended: whenever typed data is signed or a payload is built, the
\* option used is accepts[0]: the signed value is the integer its
\* maxAmountRequired denotes, to is its payTo, verifyingContract its asset;
\* the payload's authorization carries the same value (in canonical decimal)
\* and recipient, its network is the option's, and its scheme is the option's
\* scheme when that is non-empty and "exact" otherwise.
C2_FirstOptionSigned ==
  \A c \in Calls :
    /\ signing[c] # <<>> =>
         /\ Offered(c)
         /\ \A i \in 1..Len(signing[c]) :
              LET typed == signing[c][i].typed
              IN /\ BigIntOrThrow(FirstOption(c).maxAmountRequired).ok
                 /\ typed.message.value = DecimalValue(FirstOption(c).maxAmountRequired)
                 /\ typed.message.to = FirstOption(c).payTo
                 /\ typed.domain.verifyingContract = FirstOption(c).asset
    /\ PayloadBuilt(c) =>
         LET p == paymentPayload[c]
             a == p.payload.authorization
         IN /\ Offered(c)
            /\ DecimalValue(a.value) = DecimalValue(FirstOption(c).maxAmountRequired)
            /\ a.value = ToDecimal(DecimalValue(FirstOption(c).maxAmountRequired))
            /\ a.to = FirstOption(c).payTo
            /\ p.payload.signature.typed.domain.verifyingContract = FirstOption(c).asset
            /\ p.network = FirstOption(c).network
            /\ p.scheme = IF FirstOption(c).scheme # "" THEN FirstOption(c).scheme ELSE "exact"

\* C2 happens: two options offered, the first a large amount, and the payload
\* built for the first
C2_Witness ==
  \E c \in Calls :
    /\ Offered(c)
    /\ Len(InitialData(c).accepts) = 2
    /\ FirstOption(c) # InitialData(c).accepts[2]
    /\ BigIntOrThrow(FirstOption(c).maxAmountRequired).ok
    /\ DecimalValue(FirstOption(c).maxAmountRequired) = 999999999
    /\ PayloadBuilt(c)
    /\ Len(transport[c]) = 2
    /\ transport[c][2].init.xPayment # NoPayment

\* C2 as stated: the payload's value, to, asset, network and scheme are those
\* of accepts[0].
C2_AsStated ==
  \A c \in Calls :
    PayloadBuilt(c) =>
      LET p == paymentPayload[c]
          a == p.payload.authorization
      IN /\ Offered(c)
         /\ DecimalValue(a.value) = DecimalValue(FirstOption(c).maxAmountRequired)
         /\ a.to = FirstOption(c).payTo
         /\ p.payload.signature.typed.domain.verifyingContract = FirstOption(c).asset
         /\ p.network = FirstOption(c).network
         /\ p.scheme = FirstOption(c).scheme

\* C3: a 402 whose body offers no usable payment option (null, no accepts,
\* an empty accepts, an empty or unreadable or non-JSON body) makes request
\* throw 'No payment options available in 402 response' with no metadata
\* read, no signing and no second transport call.
C3_NoOptionsProtocolError ==
  \A c \in Calls :
    (Answered(c) /\ initialResponse[c].status = PaymentRequired /\ ~Offered(c)) =>
      /\ pc[c] = "done"
      /\ outcome[c] = Throw(ProtocolError)
      /\ metadata[c] = NoMetadata
      /\ signing[c] = <<>>
      /\ Len(transport[c]) = 1

\* C4: a second response whose status is no success status makes request
\* throw the error whose message holds that status and the parsed body of the
\* second response; nothing is returned.
C4_SettlementErrorCarriesStatusAndBody ==
  \A c \in Calls :
    (PaidAnswered(c) /\ paidResponse[c].status \notin 200..299) =>
      /\ pc[c] = "done"
      /\ outcome[c].kind = "throw"
      /\ outcome[c].error.message = "Payment accepted but request failed: "
      /\ outcome[c].error.status = paidResponse[c].status
      /\ outcome[c].error.body = PaidData(c)
      /\ outcome[c].data = JNull
      /\ outcome[c].status = 0

\* C4 happens: the retry was answered 500 with a non-JSON body, which the
\* error carries wrapped as { error: text }
C4_Witness ==
  \E c \in Calls :
    /\ PaidAnswered(c)
    /\ paidResponse[c].status = 500
    /\ outcome[c].kind = "throw"
    /\ outcome[c].error.status = 500
    /\ outcome[c].error.body = JErrorObject("Bad Gateway")

\* C5: a second response with any 2xx status is returned: its parsed body,
\* status and headers, and no SettlementError.
C5_SuccessStatusReturned ==
  \A c \in Calls :
    (PaidAnswered(c) /\ paidResponse[c].status \in 200..299) =>
      /\ outcome[c].kind = "return"
      /\ outcome[c].data = PaidData(c)
      /\ outcome[c].status = paidResponse[c].status
      /\ outcome[c].headers = paidResponse[c].headers

\* C6: a call issues at most two transport calls and signs at most once; a
\* retry answered 402 ends the call with an error, two transport calls and
\* one signing; a rejected fetch ends the call with that rejection and is not
\* issued again.
C6_SingleRetryCycle ==
  \A c \in Calls :
    /\ Len(transport[c]) <= 2
    /\ Len(signing[c]) <= 1
    /\ Len(transport[c]) = 2 => Len(signing[c]) = 1
    /\ (PaidAnswered(c) /\ paidResponse[c].status = PaymentRequired) =>
         /\ pc[c] = "done"
         /\ outcome[c].kind = "throw"
         /\ Len(transport[c]) = 2
         /\ Len(signing[c]) = 1
    /\ (pc[c] = "done" /\ outcome[c].error.message = "fetch failed") =>
         /\ outcome[c].kind = "throw"
         /\ Len(transport[c]) = (IF Answered(c) THEN 2 ELSE 1)

\* C6 happens: the retry itself was answered 402 and the call ended there
C6_Witness ==
  \E c \in Calls :
    /\ PaidAnswered(c)
    /\ paidResponse[c].status = PaymentRequired
    /\ Offered(c)
    /\ pc[c] = "done"
    /\ Len(transport[c]) = 2

\* C7: the retried request has the url and method of the first, every header
\* of options.headers other than X-PAYMENT with its value, the X-PAYMENT
\* header, and no other header.
C7_CallerHeadersKept ==
  \A c \in Calls :
    Len(transport[c]) = 2 =>
      LET first == transport[c][1]
          paid == transport[c][2]
          kept == {f \in HeadersOf(args[c].options.headers) : f.name # "X-PAYMENT"}
      IN /\ paid.url = first.url
         /\ paid.init.method = first.init.method
         /\ paid.init.xPayment # NoPayment
         /\ paid.init.headers = kept

\* C8: a call that got a 402 with a non-empty accepts and threw before a
\* second request was sent threw 'Failed to create payment: ...' with the
\* cause in it.
C8_PaymentFailuresWrapped ==
  \A c \in Calls :
    (Offered(c) /\ outcome[c].kind = "throw" /\ Len(transport[c]) = 1) =>
      /\ outcome[c].error.message = "Failed to create payment: "
      /\ outcome[c].error.cause # ""

\* C9: validBefore - validAfter is 3600 in every signed message, and the
\* payload's authorization carries, as decimal strings, the validAfter and
\* validBefore that were signed.
C9_WindowIsOneHour ==
  \A c \in Calls :
    /\ \A i \in 1..Len(signing[c]) :
         LET m == signing[c][i].typed.message
         IN m.validBefore - m.validAfter = ValidityWindow
    /\ PayloadBuilt(c) =>
         LET a == paymentPayload[c].payload.authorization
             m == signing[c][Len(signing[c])].typed.message
         IN /\ DecimalValue(a.validBefore) - DecimalValue(a.validAfter) = ValidityWindow
            /\ DecimalValue(a.validAfter) = m.validAfter
            /\ DecimalValue(a.validBefore) = m.validBefore
            /\ paymentPayload[c].payload.signature.typed.message = m

\* C9 happens: a payload was built and sent on the retried request
C9_Witness ==
  \E c \in Calls :
    /\ PayloadBuilt(c)
    /\ Len(transport[c]) = 2
    /\ paymentPayload[c].payload.authorization.validAfter = ToDecimal(EpochStart)
    /\ transport[c][2].init.xPayment.json[9] =
         <<"validBefore", ToDecimal(EpochStart + ValidityWindow)>>

\* the window of the call's authorization holds at clock reading t
InWindow(c, t) ==
  LET m == signing[c][Len(signing[c])].typed.message
  IN m.validAfter <= t /\ t < m.validBefore

\* C10 as stated: when the retried request is issued the clock reads a time
\* inside the window of the authorization it carries, however long signing
\* took (stated for the runs in which the clock was not set back).
C10_InWindowWhenSent ==
  \A c \in Calls :
    (Len(transport[c]) = 2 /\ transport[c][2].at >= signing[c][1].at) =>
      InWindow(c, transport[c][2].at)

\* C10 as amended: the window holds at the clock read that fixes it, and at
\* the moment the retried request is issued it holds exactly when the clock
\* has advanced by at least 0 and less than 3600 seconds since that read.
C10_InWindowIffSignedWithinTheHour ==
  \A c \in Calls :
    /\ \A i \in 1..Len(signing[c]) :
         LET m == signing[c][i].typed.message
         IN m.validAfter <= signing[c][i].at /\ signing[c][i].at < m.validBefore
    /\ Len(transport[c]) = 2 =>
         LET elapsed == transport[c][2].at - signing[c][1].at
         IN InWindow(c, transport[c][2].at) <=> (0 <= elapsed /\ elapsed < ValidityWindow)

\* C10 happens: the signature took 3599 seconds and the request was sent
C10_Witness ==
  \E c \in Calls :
    /\ Len(transport[c]) = 2
    /\ transport[c][2].at - signing[c][1].at = ValidityWindow - 1
    /\ InWindow(c, transport[c][2].at)


\* the chain a settlement network name denotes
ChainIdOf(network) == IF network = "base" THEN BaseChainId ELSE BaseSepoliaChainId

\* C11: the domain that is signed names the selected option's asset as
\* verifyingContract and, as chainId, the chain of the network that the
\* option names and the payload declares.
C11_SignedChainIsDeclaredNetwork ==
  \A c \in Calls :
    PayloadBuilt(c) =>
      LET p == paymentPayload[c]
          domain == p.payload.signature.typed.domain
      IN /\ domain.verifyingContract = FirstOption(c).asset
         /\ p.network = FirstOption(c).network
         /\ domain.chainId = ChainIdOf(p.network)

\* the domain field a lookup result must lead to
ExpectedDomainField(result, fallback) ==
  IF result.ok /\ result.value # "" THEN result.value ELSE fallback

\* C12: whatever the two lookups did, a call that has left the metadata step
\* has handed typed data to the signer; its domain name is the looked-up name,
\* or 'USD Coin' when that lookup failed or gave an empty value, and its
\* domain version the looked-up version, or '2', each independently of the
\* other; and no call ends with an error at the metadata step.
C12_MetadataFallsBack ==
  \A c \in Calls :
    /\ pc[c] \in {"signing", "paid"} => Len(signing[c]) = 1
    /\ \A i \in 1..Len(signing[c]) :
         LET domain == signing[c][i].typed.domain
         IN /\ domain.name = ExpectedDomainField(metadata[c].name, "USD Coin")
            /\ domain.version = ExpectedDomainField(metadata[c].version, "2")
    /\ (Offered(c) /\ BigIntOrThrow(FirstOption(c).maxAmountRequired).ok /\ pc[c] = "done") =>
         Len(signing[c]) = 1

\* C12 happens: the name lookup failed, the version lookup gave a value, and
\* the retried request was sent
C12_Witness ==
  \E c \in Calls :
    /\ Len(transport[c]) = 2
    /\ ~metadata[c].name.ok
    /\ metadata[c].version = [ok |-> TRUE, value |-> "USDC"]
    /\ signing[c][1].typed.domain.name = "USD Coin"
    /\ signing[c][1].typed.domain.version = "USDC"

HexValue(ch) == (CHOOSE i \in 1..16 : HexDigits[i] = ch) - 1

RECURSIVE HexNumber(_)
HexNumber(s) ==
  IF s = <<>> THEN 0
  ELSE 16 * HexNumber(SubSeq(s, 1, Len(s) - 1)) + HexValue(s[Len(s)])

\* C18: a nonce is "0x" and 64 hex digits: 16 digits that read as the unix
\* time of its creation, then for each of the 24 random bytes two digits that
\* read as that byte; the payload carries the nonce that was signed.
C18_NonceLayout ==
  \A c \in Calls :
    /\ \A i \in 1..Len(signing[c]) :
         LET made == signing[c][i]
             nonce == made.typed.message.nonce
         IN /\ Len(nonce) = 66
            /\ nonce[1] = "0" /\ nonce[2] = "x"
            /\ \A k \in 3..66 : \E d \in 1..16 : HexDigits[d] = nonce[k]
            /\ HexNumber(SubSeq(nonce, 3, 18)) = made.at
            /\ Len(made.random) = NonceRandomBytes
            /\ \A b \in 1..NonceRandomBytes :
                 HexNumber(SubSeq(nonce, 17 + 2 * b, 18 + 2 * b)) = made.random[b]
    /\ PayloadBuilt(c) =>
         paymentPayload[c].payload.authorization.nonce = signing[c][1].typed.message.nonce

\* C18 happens: a nonce with a byte below 16 in it was signed and sent
C18_Witness ==
  \E c \in Calls :
    /\ Len(transport[c]) = 2
    /\ signing[c][1].random[1] = 1
    /\ SubSeq(signing[c][1].typed.message.nonce, 19, 22) = <<"0", "1", "1", "1">>


\* where a call stands, by what it has done so far
C19_Order(c) ==
  /\ Len(transport[c]) <= 2 /\ Len(signing[c]) <= 1
  /\ Len(transport[c]) >= 1 =>
       /\ transport[c][1].init.xPayment = NoPayment
       /\ transport[c][1].init.headers = HeadersOf(args[c].options.headers)
  /\ pc[c] = "metadata" => Len(transport[c]) = 1 /\ Offered(c) /\ signing[c] = <<>>
  /\ Len(signing[c]) = 1 => Len(transport[c]) >= 1 /\ Offered(c)
  /\ pc[c] = "signing" => Len(signing[c]) = 1 /\ Len(transport[c]) = 1 /\ ~PayloadBuilt(c)
  /\ PayloadBuilt(c) =>
       /\ Len(signing[c]) = 1
       /\ paymentPayload[c].payload.signature =
            [signer |-> client.accountAddress, typed |-> signing[c][1].typed]
  /\ Len(transport[c]) = 2 =>
       /\ PayloadBuilt(c)
       /\ transport[c][2].init.xPayment = encodePaymentPayload(paymentPayload[c], env).value
       /\ transport[c][2].init.xPayment # NoPayment

\* what one step of a call may do
C19_Step(c) ==
  /\ Len(transport'[c]) > Len(transport[c]) =>
       \/ pc[c] = "idle" /\ pc'[c] = "initial" /\ Len(transport'[c]) = 1
       \/ pc[c] = "signing" /\ pc'[c] = "paid" /\ Len(transport'[c]) = 2
          /\ ~PayloadBuilt(c) /\ PayloadBuilt(c)'
  /\ signing'[c] # signing[c] =>
       /\ pc[c] = "metadata" /\ pc'[c] = "signing"
       /\ signing[c] = <<>> /\ Len(signing'[c]) = 1
       /\ signing'[c][1].at = clock
       /\ transport'[c] = transport[c]
  /\ paymentPayload'[c] # paymentPayload[c] => pc[c] = "signing"
  /\ pc[c] = "initial" /\ pc'[c] = "metadata" => Offered(c)'

\* C19: within one call the first transport call comes first and carries no
\* X-PAYMENT but the caller's own; typed data reaches the signer only after a
\* 402 with a non-empty accepts and once both lookups have settled, with the
\* clock read at that moment; the payload exists only once the signer has
\* returned; and the second transport call is issued only in the step in which
\* the signature arrives, carrying the encoding of that payload.
C19_StrictOrder ==
  /\ [](\A c \in {1} : C19_Order(c))
  /\ [][\A c \in {1} : C19_Step(c)]_vars

\* C19 happens: a call whose caller supplied an X-PAYMENT header went through
\* all steps; the first call carried the caller's header, the second the
\* payment
C19_Witness ==
  \E c \in Calls :
    /\ Len(transport[c]) = 2
    /\ [name |-> "X-PAYMENT", value |-> <<"stale">>] \in transport[c][1].init.headers
    /\ transport[c][2].init.xPayment.encoding = "base64"
    /\ paidResponse[c] # NoResponse


\* what call c has built is built from its own 402 response, its own clock
\* reading and its own draw, and goes out with its own url and headers
C13_Own(c) ==
  /\ Len(signing[c]) = 1 =>
       LET made == signing[c][1]
       IN made.typed = TypedData(client, PaymentParams(FirstOption(c), args[c].url),
                                 CatchRead(metadata[c].name, "USD Coin"),
                                 CatchRead(metadata[c].version, "2"),
                                 made.at, NonceBytes(made.at, made.random))
  /\ Len(transport[c]) = 2 =>
       LET typed == signing[c][1].typed
           own == PaymentPayload(client, PaymentParams(FirstOption(c), args[c].url), typed,
                                 [signer |-> client.accountAddress, typed |-> typed])
       IN /\ paymentPayload[c] = own
          /\ transport[c][2].url = args[c].url
          /\ transport[c][2].init = PaidInit(args[c].options, encodePaymentPayload(own, env).value)

\* a step of one call leaves everything of the other call as it was
C13_Apart(c, d) ==
  (c # d /\ pc'[c] # pc[c]) =>
    /\ pc'[d] = pc[d] /\ args'[d] = args[d] /\ transport'[d] = transport[d]
    /\ initialResponse'[d] = initialResponse[d] /\ params'[d] = params[d]
    /\ metadata'[d] = metadata[d] /\ signing'[d] = signing[d]
    /\ paymentPayload'[d] = paymentPayload[d] /\ paidResponse'[d] = paidResponse[d]
    /\ outcome'[d] = outcome[d]

\* C13: for every interleaving of two calls on one client, each call signs
\* typed data built from its own 402 response, clock reading and random draw,
\* each retried request carries the payload built from that call's own 402
\* response, no step of one call changes anything of the other, and the
\* client's fields never change.
C13_ConcurrentCallsIndependent ==
  /\ [](\A c \in {1, 2} : C13_Own(c))
  /\ [][/\ client' = client
        /\ \A c \in {1, 2}, d \in {1, 2} : C13_Apart(c, d)]_vars

\* C13 happens: two calls that were offered different options wait for their
\* second responses at the same time, each with its own payee and nonce
C13_Witness ==
  /\ Calls = ConcurrentCalls
  /\ pc[1] = "paid" /\ pc[2] = "paid"
  /\ paymentPayload[1].payload.authorization.to = "0xPayee"
  /\ paymentPayload[2].payload.authorization.to = "0xMallory"
  /\ paymentPayload[1].payload.authorization.nonce # paymentPayload[2].payload.authorization.nonce

Signed(c) == Len(signing[c]) >= 1

NonceOf(c) == signing[c][1].typed.message.nonce

\* C14 as stated: the nonces of any two authorizations of the client differ.
C14_NoncesPairwiseDistinct ==
  \A c \in Calls, d \in Calls :
    (c # d /\ Signed(c) /\ Signed(d)) => NonceOf(c) # NonceOf(d)

\* C14 as amended: two authorizations of the client carry the same nonce
\* exactly when they were created in the same second with the same 24 drawn
\* bytes; otherwise their nonces differ.
C14_NoncesEqualOnlyOnSameSecondAndDraw ==
  \A c \in Calls, d \in Calls :
    (Signed(c) /\ Signed(d)) =>
      (NonceOf(c) = NonceOf(d)
         <=> (signing[c][1].at = signing[d][1].at /\ signing[c][1].random = signing[d][1].random))

\* C14 happens: two authorizations created in the same second from different
\* draws carry different nonces
C14_Witness ==
  \E c \in Calls, d \in Calls :
    /\ c # d /\ Signed(c) /\ Signed(d)
    /\ signing[c][1].at = signing[d][1].at
    /\ signing[c][1].random # signing[d][1].random
    /\ NonceOf(c) # NonceOf(d)
    /\ PayloadBuilt(c) /\ PayloadBuilt(d)

\* how a finished call ended
C20_Outcome(c) ==
  /\ pc[c] = "done" <=> outcome[c] # Pending
  /\ pc[c] = "done" =>
       \/ /\ outcome[c].kind = "return" /\ outcome[c].error = NoError
          /\ Len(transport[c]) = 1 /\ ~PaidAnswered(c)
          /\ outcome[c] = Return(InitialData(c), initialResponse[c])
          /\ outcome[c].status # PaymentRequired
       \/ /\ outcome[c].kind = "return" /\ outcome[c].error = NoError
          /\ Len(transport[c]) = 2 /\ PaidAnswered(c)
          /\ outcome[c] = Return(PaidData(c), paidResponse[c])
          /\ outcome[c].status # PaymentRequired
       \/ /\ outcome[c].kind = "throw" /\ outcome[c].error # NoError
          /\ outcome[c].data = JNull

\* C20: when transport, reads and signer always answer, every call that was
\* made ends; it ends by returning the first response, by returning the second
\* response or by throwing one error, never with a returned status of 402, and
\* once it has ended its outcome stays.
C20_EndsInOneOutcome ==
  /\ \A c \in {1, 2} : pc[c] # "idle" ~> pc[c] = "done"
  /\ [](\A c \in {1, 2} : C20_Outcome(c))
  /\ [][\A c \in {1, 2} : outcome[c] # Pending => outcome'[c] = outcome[c] /\ pc'[c] = pc[c]]_vars

\* C20 happens: one call has thrown on a second response of status 402 and
\* the other has returned its second response
C20_Witness ==
  \E c \in Calls, d \in Calls :
    /\ pc[c] = "done" /\ outcome[c].kind = "throw" /\ paidResponse[c].status = PaymentRequired
    /\ pc[d] = "done" /\ outcome[d].kind = "return" /\ Len(transport[d]) = 2


\* the response that was parsed
Parsed(c) == IF initialResponse[c] # NoResponse THEN initialResponse[c] ELSE paidResponse[c]

\* the text the body read delivered, empty when the read failed or the
\* response had no way to be read
Delivered(r) ==
  IF r.body.reader # "none" /\ r.body.readable THEN r.body.text ELSE EmptyText

\* C15: parsing a response of either round always returns a value: the
\* decoded value for a body that is valid JSON, {error: raw text} for a
\* non-empty body that is not, whatever the content type, and {} for an empty
\* body or a body whose read fails.
C15_ParseNeverThrows ==
  \A c \in Calls :
    pc[c] = "done" =>
      LET text == Delivered(Parsed(c))
      IN /\ outcome[c].kind = "return"
         /\ text.kind = "json" => outcome[c].data = text.json
         /\ text.kind = "raw" => outcome[c].data = JErrorObject(text.raw)
         /\ text.kind = "empty" => outcome[c].data = JEmptyObject

\* C15 happens: a second response announced as HTML, with a body that is no
\* JSON, was parsed into the error-shaped value
C15_Witness ==
  \E c \in Calls :
    /\ pc[c] = "done"
    /\ paidResponse[c] # NoResponse
    /\ paidResponse[c].contentType = <<"text/html">>
    /\ Delivered(paidResponse[c]) = RawText("Bad Gateway")
    /\ outcome[c].data = JErrorObject("Bad Gateway")


\* the hex digits of a key, without its 0x
KeyDigits(key) == IF StartsWith(key, <<"0", "x">>) THEN SubSeq(key, 3, Len(key)) ELSE key

\* a 32-byte hex string, with or without 0x
Is32ByteHex(key) ==
  /\ Len(KeyDigits(key)) = KeyHexDigits
  /\ \A i \in 1..Len(KeyDigits(key)) : KeyDigits(key)[i] \in HexChars

\* an absolute URL of scheme http or https
IsHttpUrl(url) == url.absolute /\ url.protocol \in {Scheme("http"), Scheme("https")}

\* C17: construction fails, and leaves no client, when the key is no 32-byte
\* hex string or the facilitator URL that was given is no http or https URL;
\* for every other input it succeeds, and getAddress returns the address
\* derived from the key.
C17_ConstructorValidates ==
  \A c \in Calls :
    pc[c] # "new" =>
      LET options == args[c]
          valid == /\ Is32ByteHex(options.evmPrivateKey)
                   /\ UrlGiven(options.facilitatorUrl) => IsHttpUrl(options.facilitatorUrl.value)
          derived == [i \in 1..KeyHexDigits |-> HexCharValue(KeyDigits(options.evmPrivateKey)[i])]
      IN IF valid
         THEN /\ outcome[c].kind # "throw"
              /\ client # NoClient
              /\ getAddress(client) = derived
              /\ pc[c] = "done" => outcome[c].data = derived
         ELSE /\ outcome[c].kind = "throw"
              /\ client = NoClient


\* what a receiver does with the header: base64 to bytes
Base64Decode(chars) ==
  LET n == Len(chars)
      sextet(i) == IF chars[i] = "=" THEN 0
                   ELSE (CHOOSE v \in 1..64 : Base64Alphabet[v] = chars[i]) - 1
      padding == IF n = 0 THEN 0
                 ELSE (IF chars[n] = "=" THEN 1 ELSE 0) + (IF chars[n - 1] = "=" THEN 1 ELSE 0)
  IN [k \in 1..(3 * (n \div 4) - padding) |->
        LET g == (k - 1) \div 3
            j == (k - 1) % 3
            quad == sextet(4 * g + 1) * 262144 + sextet(4 * g + 2) * 4096
                    + sextet(4 * g + 3) * 64 + sextet(4 * g + 4)
        IN (quad \div (IF j = 0 THEN 65536 ELSE IF j = 1 THEN 256 ELSE 1)) % 256]

\* the character that starts at byte k: none at a continuation byte, -1
\* where the sequence is cut short
Utf8At(bytes, k) ==
  LET byte(i) == IF i <= Len(bytes) THEN bytes[i] - 128 ELSE -100000
  IN IF bytes[k] < 128 THEN <<bytes[k]>>
     ELSE IF bytes[k] < 192 THEN <<>>
     ELSE IF bytes[k] < 224 THEN <<(bytes[k] - 192) * 64 + byte(k + 1)>>
     ELSE <<(bytes[k] - 224) * 4096 + byte(k + 1) * 64 + byte(k + 2)>>

\* bytes to characters
RECURSIVE Utf8Decode(_, _, _)
Utf8Decode(bytes, lo, hi) ==
  IF lo > hi THEN <<>>
  ELSE IF lo = hi THEN Utf8At(bytes, lo)
  ELSE Utf8Decode(bytes, lo, (lo + hi) \div 2) \o Utf8Decode(bytes, ((lo + hi) \div 2) + 1, hi)

\* the index of the quote that closes the string whose content starts at i,
\* 0 when there is none
RECURSIVE StringEnd(_, _)
StringEnd(text, i) ==
  IF i > Len(text) THEN 0
  ELSE IF text[i] = 34 THEN i
  ELSE IF text[i] = 92 THEN StringEnd(text, i + 2)
  ELSE StringEnd(text, i + 1)

HexCode(cp) == IF cp >= 97 THEN cp - 87 ELSE cp - 48

Unescaped(cp) ==
  CASE cp = 98 -> 8 [] cp = 116 -> 9 [] cp = 110 -> 10 [] cp = 102 -> 12 [] cp = 114 -> 13
    [] OTHER -> cp

\* the characters a JSON string's content from i to before end stands for
RECURSIVE Unescape(_, _, _)
Unescape(text, i, end) ==
  IF i >= end THEN <<>>
  ELSE IF text[i] # 92 THEN <<text[i]>> \o Unescape(text, i + 1, end)
  ELSE IF text[i + 1] = 117
  THEN <<HexCode(text[i + 2]) * 4096 + HexCode(text[i + 3]) * 256
         + HexCode(text[i + 4]) * 16 + HexCode(text[i + 5])>> \o Unescape(text, i + 6, end)
  ELSE <<Unescaped(text[i + 1])>> \o Unescape(text, i + 2, end)

RECURSIVE NumberEnd(_, _)
NumberEnd(text, i) ==
  IF i <= Len(text) /\ text[i] >= 48 /\ text[i] <= 57 THEN NumberEnd(text, i + 1) ELSE i

RECURSIVE NumberValue(_, _, _)
NumberValue(text, i, end) ==
  IF i >= end THEN 0
  ELSE (text[end - 1] - 48) + 10 * NumberValue(text, i, end - 1)

FieldLits ==
  <<LitVersion, LitScheme, LitNetwork, LitSignature, LitFrom, LitTo, LitValue,
    LitValidAfter, LitValidBefore, LitNonce>>

\* JSON.parse of a payload's text: the ten field values in order, the number
\* as a one-element sequence; a text of another shape gives something else
RECURSIVE ParseFields(_, _, _)
ParseFields(text, i, k) ==
  IF k > Len(FieldLits)
  THEN (IF SubSeq(text, i, Len(text)) = LitClose THEN <<>> ELSE << <<-1>>, <<-1>> >>)
  ELSE LET start == i + Len(FieldLits[k])
       IN IF start > Len(text) \/ SubSeq(text, i, start - 1) # FieldLits[k] THEN << <<-1>> >>
          ELSE IF k = 1
          THEN << <<NumberValue(text, start, NumberEnd(text, start))>> >>
               \o ParseFields(text, NumberEnd(text, start), k + 1)
          ELSE IF text[start] # 34 \/ StringEnd(text, start + 1) = 0 THEN << <<-1>> >>
          ELSE <<Unescape(text, start + 1, StringEnd(text, start + 1))>>
               \o ParseFields(text, StringEnd(text, start + 1) + 1, k + 1)

DecodeHeader(header) ==
  ParseFields(Utf8Decode(Base64Decode(header), 1, Len(Base64Decode(header))), 1, 1)

FieldsOf(p) ==
  << <<p.x402Version>>, p.scheme, p.network, p.payload.signature,
     p.payload.authorization.from, p.payload.authorization.to,
     p.payload.authorization.value, p.payload.authorization.validAfter,
     p.payload.authorization.validBefore, p.payload.authorization.nonce >>

\* C16: the header that is sent decodes (base64, UTF-8, JSON) to the
\* payload's x402Version, scheme, network, signature and six authorization
\* fields, each equal to the payload's; and the Buffer path and the
\* TextEncoder and btoa path give the same header for the payload.
C16_HeaderRoundTrip ==
  \A c \in Calls :
    Len(transport[c]) >= 1 =>
      LET header == transport[c][Len(transport[c])].init.xPayment
          p == paymentPayload[c]
      IN /\ DecodeHeader(header) = FieldsOf(p)
         /\ header = EncodeHeader(p, [Buffer |-> TRUE, btoa |-> TRUE, fetch |-> TRUE]).value
         /\ header = EncodeHeader(p, [Buffer |-> FALSE, btoa |-> TRUE, fetch |-> TRUE]).value

\* C16 happens: a payload with a quote, a backslash and characters beyond
\* ASCII in its fields went out, encoded without Buffer
C16_Witness ==
  \E c \in Calls :
    /\ Len(transport[c]) = 1
    /\ ~env.Buffer
    /\ paymentPayload[c].scheme = <<34, 233>>
    /\ paymentPayload[c].payload.authorization.to = <<92, 8364>>

====
